---- MODULE Spec2Model ----
(***************************************************************************)
(* The batch pipeline of the synthetic clinical-dialogue dataset:          *)
(*   generate_transcriptions_batch.py  (stage "tx_batch")                  *)
(*   generate_soap_notes.py            (stage "soap_notes")                *)
(*   generate_soap_sections.py         (stage "soap_sections")             *)
(*   merge_soap_clean.py               (stage "merge_clean")               *)
(* Each script is a sequential program; pc is its position.  The remote    *)
(* batch facility is the environment: its job status is `remote`, and the  *)
(* files it returns are chosen when they are downloaded.  Strings that the *)
(* program formats or splits (custom_id) are sequences of characters.      *)
(***************************************************************************)
EXTENDS Integers, Sequences, FiniteSets, TLC

\* ---------------------------------------------------------------- bounds
\* CONFIG["TARGET_ROWS"] (1 032 in the source), scaled down.
TARGET_ROWS == 2
\* Longest response file (lines) the facility returns / a stage reads.
MaxLines == 2
\* Longest augmentation response file (never parsed: see FlattenOpen).
MaxAugLines == 1
\* Polls after which the model stops following the (unbounded) poll loop.
MaxPolls == 3
\* Largest argument build_rows is called with.
MaxN == 3
\* Most chunks between the head and the tail of a model answer.
MaxChunks == 3
\* generate_transcriptions.py: CONFIG["TARGET_ROWS"] (1 032),
\* CONFIG["BATCH_SIZE"] (10) and CONFIG["CHECKPOINT_ROWS"] (100), scaled down.
TX_TARGET_ROWS == 3
BATCH_SIZE == 2
CHECKPOINT_ROWS == 2
\* Distinct records generate_one can return.
MaxKeys == 4
\* Groups of calls after which the model stops following main's loop.
MaxGroups == 3
\* Most pieces of text in a transcription.
MaxText == 2
\* f"row{i:04d}": the zero-padded width of a row id.
IdWidth == 4

Null == 0

\* ------------------------------------------------------- strings, row ids
DigitChar == <<"0", "1", "2", "3", "4", "5", "6", "7", "8", "9">>

RECURSIVE Digits(_)
Digits(n) ==
    IF n < 10 THEN <<DigitChar[n + 1]>>
    ELSE Digits(n \div 10) \o <<DigitChar[(n % 10) + 1]>>

RECURSIVE ZeroPad(_, _)
ZeroPad(s, w) == IF Len(s) >= w THEN s ELSE ZeroPad(<<"0">> \o s, w)

\* A row id whose last digit is lost (the mutant of RowId).
RowId_DropDigit(i) == <<"r", "o", "w">> \o ZeroPad(Digits(i \div 10), IdWidth)

\* f"row{i:04d}"
RowId(i) == <<"r", "o", "w">> \o ZeroPad(Digits(i), IdWidth)

\* The row ids of df, in order (df["row_id"]); the same ids are the
\* custom_ids of batch_input.jsonl, hence the keys of facts_map / req_facts.
DfIds == [i \in 1..TARGET_ROWS |-> RowId(i - 1)]
WorkIds == {DfIds[i] : i \in 1..TARGET_ROWS}

\* A custom_id that matches no generated row.
ForeignId == <<"r", "o", "w", "9", "9", "9", "9">>

\* ------------------------------------------------------ response records
\* One line of a downloaded output file: custom_id, response.status_code and
\* whether the message content can be parsed/extracted by the stage reading it.
RespRecords(ids) ==
    {[custom_id |-> c, status_code |-> 200, content |-> x] :
        c \in ids, x \in {"json", "garbage"}}
    \cup {[custom_id |-> c, status_code |-> 500, content |-> "error"] : c \in ids}

\* A test that takes every line for a success (the mutant of Succeeded).
Succeeded_Any(rec) == TRUE

\* j["response"]["status_code"] == 200
Succeeded(rec) == rec.status_code = 200

SeqsUpTo(S, n) == UNION {[1..k -> S] : k \in 0..n}

RespFiles == SeqsUpTo(RespRecords(WorkIds \cup {ForeignId}), MaxLines)

EmptyMap == [c \in {} |-> Null]
Put(map, k, v) == [c \in DOMAIN map \cup {k} |-> IF c = k THEN v ELSE map[c]]

Range(s) == {s[i] : i \in 1..Len(s)}


\* ------------------------------------------- composite ids (augmentation)
\* The keys of a SOAP note: the template of generate_soap_notes.py asks for
\* exactly these four.
SOAP_LABELS == <<
    <<"s", "u", "b", "j", "e", "c", "t", "i", "v", "e">>,
    <<"o", "b", "j", "e", "c", "t", "i", "v", "e">>,
    <<"a", "s", "s", "e", "s", "s", "m", "e", "n", "t">>,
    <<"p", "l", "a", "n">> >>

\* The slugs of FORMAT_VARIANTS, in order.
FORMAT_SLUGS == <<
    <<"s", "i", "m", "p", "l", "e">>,
    <<"b", "u", "l", "l", "e", "t", "s">>,
    <<"n", "a", "r", "r", "a", "t", "i", "v", "e">>,
    <<"b", "r", "e", "v", "_", "b", "p">>,
    <<"d", "e", "t", "a", "i", "l", "e", "d">> >>

\* f"{cid}_{label}_{slug}"
EncodeId(cid, label, slug) == cid \o <<"_">> \o label \o <<"_">> \o slug

\* The custom_ids written to augment_input.jsonl: for each note, for each
\* label, for each format, in that nesting order.
AugIds(keys) ==
    LET nl == Len(SOAP_LABELS)
        nf == Len(FORMAT_SLUGS)
    IN  [k \in 1..(Len(keys) * nl * nf) |->
            EncodeId(keys[((k - 1) \div (nl * nf)) + 1],
                     SOAP_LABELS[(((k - 1) % (nl * nf)) \div nf) + 1],
                     FORMAT_SLUGS[((k - 1) % nf) + 1])]

\* The keys of a dict filled from the status-200 lines of a file, in
\* insertion order (a key keeps the position of its first insertion).
RECURSIVE FirstSeen(_)
FirstSeen(file) ==
    IF file = <<>> THEN <<>>
    ELSE LET init == FirstSeen(SubSeq(file, 1, Len(file) - 1))
             rec == file[Len(file)]
         IN  IF Succeeded(rec) /\ rec.custom_id \notin Range(init)
             THEN Append(init, rec.custom_id)
             ELSE init

\* CONFIG["K"]: the paraphrases asked for per (section, format).
K == 2

\* The output in which every request succeeded, one line per request.
CompleteAugFile(req) ==
    [i \in 1..Len(req) |->
        [custom_id |-> req[i], status_code |-> 200, content |-> "json"]]

\* The files the facility may return for the augmentation job: short ones
\* with lines for the first requested id and for an id that was never
\* requested, and the complete one.
AugRespFiles(req) ==
    SeqsUpTo(RespRecords((IF req = <<>> THEN {} ELSE {req[1]})
                         \cup {ForeignId}), MaxAugLines)
    \cup {CompleteAugFile(req)}

\* ------------------------------------------------------------ the state
VARIABLES
    stage,        \* which script runs
    pc,           \* its position
    failure,      \* the exception / exit that ended it ("none" while running)
    inFile,       \* the response file already on disk when the stage starts
    idx,          \* lines consumed by the loop that is running
    tx_map,       \* tx_map: custom_id -> line the transcription came from
    soap_map,     \* merge_soap_clean.soap_map
    sections,     \* generate_soap_sections.sections
    missing,      \* generate_soap_notes.missing
    reqFile,      \* the custom_ids of the request file written
    jobs,         \* batch jobs created
    remote,       \* the job's status at the facility
    batch_status, \* batch.status after the latest retrieve
    polls,        \* retrieve calls made
    observed,     \* the statuses they returned, in order
    downloaded,   \* the output file was fetched
    outFile,      \* the downloaded response file
    final,        \* the lines of the stage's final dataset file
    finalCreated, \* the final dataset file was opened for writing
    reported,     \* the line count printed by merge_soap_clean
    bN, bI, bRows, bPc,  \* build_rows: argument, loop index, rows, position
    spA, spB,     \* two (cid, label, slug) triples of the augmentation builder
    spIdA, spIdB, \* their custom_ids
    spPartsA, spPartsB,  \* what the split of each custom_id yields
    spPc,         \* position of the encode / split run
    rFn,          \* the retry-wrapped function that was called
    rHist,        \* the outcome of each attempt made so far (TRUE = success)
    rRaw,         \* resp.choices[0].message.content of the latest attempt
    rCleaned,     \* clean_json(raw) of the latest attempt
    rPc,          \* position of the wrapped call
    gtIn,         \* how a response content is made up (lead, core, trail)
    gtMatch,      \* m = grab_tx.match(content)
    gtPc,         \* position of the extraction
    mRows, mSeen, \* generate_transcriptions.main: rows, seen
    mCalls,       \* the generate_one calls of the current group
    mOrder,       \* the order in which they completed
    mBefore,      \* rows when the current group was started
    mGroups,      \* groups started so far
    mChunkIdx,    \* chunk_idx
    mCheckpoints, \* the checkpoint files patients_001, patients_002, ...
    mMaster,      \* synthetic_patients.jsonl
    mPc           \* position of main

stageVars == <<stage, pc, failure, inFile, idx, tx_map, soap_map, sections,
               missing, reqFile, jobs, remote, batch_status, polls, observed,
               downloaded, outFile, final, finalCreated, reported>>
buildVars == <<bN, bI, bRows, bPc>>
splitVars == <<spA, spB, spIdA, spIdB, spPartsA, spPartsB, spPc>>
retryVars == <<rFn, rHist, rRaw, rCleaned, rPc>>
grabVars == <<gtIn, gtMatch, gtPc>>
mainVars == <<mRows, mSeen, mCalls, mOrder, mBefore, mGroups, mChunkIdx,
              mCheckpoints, mMaster, mPc>>
extVars == <<splitVars, retryVars, grabVars, mainVars>>
exceptSplit == <<stageVars, buildVars, retryVars, grabVars, mainVars>>
exceptRetry == <<stageVars, buildVars, splitVars, grabVars, mainVars>>
exceptGrab == <<stageVars, buildVars, splitVars, retryVars, mainVars>>
exceptMain == <<stageVars, buildVars, splitVars, retryVars, grabVars>>
vars == <<stageVars, buildVars, extVars>>

Stages == {"tx_batch", "soap_notes", "soap_sections", "merge_clean"}
BatchStages == {"tx_batch", "soap_notes", "soap_sections"}

StartPc(s) ==
    CASE s = "tx_batch" -> "write_input"
      [] s = "soap_notes" -> "load_tx"
      [] s = "soap_sections" -> "load_sections"
      [] s = "merge_clean" -> "load_resp"

\* No stage script is running.
StageIdle ==
    /\ stage = "none" /\ pc = "idle" /\ failure = "none"
    /\ inFile = <<>> /\ idx = 0
    /\ tx_map = EmptyMap /\ soap_map = EmptyMap /\ sections = EmptyMap
    /\ missing = {} /\ reqFile = <<>> /\ jobs = 0
    /\ remote = "none" /\ batch_status = "none" /\ polls = 0
    /\ observed = <<>> /\ downloaded = FALSE /\ outFile = <<>>
    /\ final = <<>> /\ finalCreated = FALSE /\ reported = Null

\* build_rows is not running.
BuildIdle == bN = 0 /\ bI = 0 /\ bRows = <<>> /\ bPc = "idle"

\* No encode / split run.
SplitIdle ==
    /\ spA = Null /\ spB = Null /\ spIdA = <<>> /\ spIdB = <<>>
    /\ spPartsA = <<>> /\ spPartsB = <<>> /\ spPc = "idle"

\* No retry-wrapped call.
RetryIdle ==
    /\ rFn = "none" /\ rHist = <<>> /\ rRaw = <<>> /\ rCleaned = <<>>
    /\ rPc = "idle"

\* No extraction run.
GrabIdle == gtIn = Null /\ gtMatch = Null /\ gtPc = "idle"

\* main is not running.
MainIdle ==
    /\ mRows = <<>> /\ mSeen = {} /\ mCalls = <<>> /\ mOrder = <<>>
    /\ mBefore = <<>> /\ mGroups = 0 /\ mChunkIdx = 0
    /\ mCheckpoints = <<>> /\ mMaster = <<>> /\ mPc = "idle"

ExtIdle == SplitIdle /\ RetryIdle /\ GrabIdle /\ MainIdle

Init ==
    /\ stage \in Stages
    /\ pc = StartPc(stage)
    /\ failure = "none"
    /\ inFile \in (IF stage = "tx_batch" THEN {<<>>} ELSE RespFiles)
    /\ idx = 0
    /\ tx_map = EmptyMap
    /\ soap_map = EmptyMap
    /\ sections = EmptyMap
    /\ missing = {}
    /\ reqFile = <<>>
    /\ jobs = 0
    /\ remote = "none"
    /\ batch_status = "none"
    /\ polls = 0
    /\ observed = <<>>
    /\ downloaded = FALSE
    /\ outFile = <<>>
    /\ final = <<>>
    /\ finalCreated = FALSE
    /\ reported = Null
    /\ BuildIdle
    /\ ExtIdle

\* --------------------------------------------------- parsing a response
\* An extractor that accepts any content (the mutant of Extractable).
Extractable_Always(rec) == TRUE

\* Whether the stage's extractor recovers a payload from the content of a
\* status-200 line (grab_tx.match / json.loads succeed).
Extractable(rec) == rec.content = "json"

\* ---------------------------------------- generate_soap_notes.py, step 4
\* One iteration of the loop over batch_output.jsonl.
LoadTx ==
    /\ stage = "soap_notes" /\ pc = "load_tx" /\ idx < Len(inFile)
    /\ LET rec == inFile[idx + 1] IN
         /\ idx' = idx + 1
         /\ IF Succeeded(rec)
            THEN IF Extractable(rec)
                 THEN /\ tx_map' = Put(tx_map, rec.custom_id, idx + 1)
                      /\ UNCHANGED <<pc, failure>>
                 ELSE /\ pc' = "aborted"
                      /\ failure' = "ValueError"
                      /\ UNCHANGED tx_map
            ELSE UNCHANGED <<pc, failure, tx_map>>
    /\ UNCHANGED <<stage, inFile, soap_map, sections, missing, reqFile, jobs,
                   remote, batch_status, polls, observed, downloaded, outFile,
                   final, finalCreated, reported, buildVars, extVars>>

\* missing = set(facts_map) - set(tx_map)
MissingOf(W, E) == W \ E

\* The test that lets a stage with missing ids go on (the mutant of
\* MissingFatal).
MissingFatal_Never(m) == FALSE

\* if missing: sys.exit(...)
MissingFatal(m) == m # {}

CheckMissing ==
    /\ stage = "soap_notes" /\ pc = "load_tx" /\ idx = Len(inFile)
    /\ missing' = MissingOf(WorkIds, DOMAIN tx_map)
    /\ IF MissingFatal(missing')
       THEN pc' = "aborted" /\ failure' = "SystemExit"
       ELSE pc' = "write_input" /\ UNCHANGED failure
    /\ idx' = 0
    /\ UNCHANGED <<stage, inFile, tx_map, soap_map, sections, reqFile, jobs,
                   remote, batch_status, polls, observed, downloaded, outFile,
                   final, finalCreated, reported, buildVars, extVars>>

\* ------------------------------------- generate_soap_sections.py, step 1
LoadSections ==
    /\ stage = "soap_sections" /\ pc = "load_sections" /\ idx < Len(inFile)
    /\ LET rec == inFile[idx + 1] IN
         /\ idx' = idx + 1
         /\ IF ~Succeeded(rec)
            THEN UNCHANGED <<pc, failure, sections>>
            ELSE IF Extractable(rec)
                 THEN /\ sections' = Put(sections, rec.custom_id, idx + 1)
                      /\ UNCHANGED <<pc, failure>>
                 ELSE /\ pc' = "aborted"
                      /\ failure' = "JSONDecodeError"
                      /\ UNCHANGED sections
    /\ UNCHANGED <<stage, inFile, tx_map, soap_map, missing, reqFile, jobs,
                   remote, batch_status, polls, observed, downloaded, outFile,
                   final, finalCreated, reported, buildVars, extVars>>

SectionsLoaded ==
    /\ stage = "soap_sections" /\ pc = "load_sections" /\ idx = Len(inFile)
    /\ pc' = "write_input"
    /\ idx' = 0
    /\ UNCHANGED <<stage, failure, inFile, tx_map, soap_map, sections, missing,
                   reqFile, jobs, remote, batch_status, polls, observed,
                   downloaded, outFile, final, finalCreated, reported,
                   buildVars, extVars>>

\* ------------------------------------------- writing the request file
\* The custom_ids of the request lines, in the order written.
RequestIds ==
    CASE stage = "tx_batch" -> DfIds
      [] stage = "soap_notes" -> DfIds
      [] stage = "soap_sections" -> AugIds(FirstSeen(inFile))

WriteInput ==
    /\ stage \in BatchStages /\ pc = "write_input"
    /\ reqFile' = RequestIds
    /\ pc' = "launch"
    /\ UNCHANGED <<stage, failure, inFile, idx, tx_map, soap_map, sections,
                   missing, jobs, remote, batch_status, polls, observed,
                   downloaded, outFile, final, finalCreated, reported,
                   buildVars, extVars>>

\* ------------------------------------------------ upload + batches.create
\* A launch step that runs twice (the mutant of Launch).
Launch_Again ==
    /\ stage \in BatchStages /\ pc = "launch"
    /\ jobs' = jobs + 1
    /\ remote' = "pending"
    /\ pc' = (IF jobs = 0 THEN "launch" ELSE "poll")
    /\ UNCHANGED <<stage, failure, inFile, idx, tx_map, soap_map, sections,
                   missing, reqFile, batch_status, polls, observed, downloaded,
                   outFile, final, finalCreated, reported, buildVars, extVars>>

\* file_obj = client.files.create(...); batch = client.batches.create(...)
Launch ==
    /\ stage \in BatchStages /\ pc = "launch"
    /\ jobs' = jobs + 1
    /\ remote' = "pending"
    /\ pc' = "poll"
    /\ UNCHANGED <<stage, failure, inFile, idx, tx_map, soap_map, sections,
                   missing, reqFile, batch_status, polls, observed, downloaded,
                   outFile, final, finalCreated, reported, buildVars, extVars>>

\* ------------------------------------------------------ the remote job
\* The statuses client.batches.retrieve can return are pending, running and
\* the terminal ones; "cancelled" is a terminal status of the facility that
\* the scripts never mention.
RemoteTerminal == {"completed", "failed", "expired", "cancelled"}

\* The job advances at the facility, out of band, until it is terminal.
RemoteNext(s) ==
    CASE s = "pending" -> {"running", "failed", "expired", "cancelled"}
      [] s = "running" -> {"completed", "failed", "expired", "cancelled"}
      [] OTHER -> {}

RemoteStep ==
    /\ pc = "poll"
    /\ \E s \in RemoteNext(remote) : remote' = s
    /\ UNCHANGED <<stage, pc, failure, inFile, idx, tx_map, soap_map, sections,
                   missing, reqFile, jobs, batch_status, polls, observed,
                   downloaded, outFile, final, finalCreated, reported,
                   buildVars, extVars>>

\* ------------------------------------------------------- the poll loop
\* A loop that does not treat "expired" as an end (mutant of PollOutcome).
PollOutcome_NoExpired(status) ==
    IF status = "failed" THEN "abort"
    ELSE IF status = "completed" THEN "break" ELSE "sleep"

\* A loop that leaves on "expired" as on "completed" (mutant of PollOutcome).
PollOutcome_BreakOnExpired(status) ==
    IF status = "failed" THEN "abort"
    ELSE IF status \in {"completed", "expired"} THEN "break" ELSE "sleep"

\* A loop that gives up on a job that is still pending (mutant of
\* PollOutcome).
PollOutcome_GiveUp(status) ==
    IF status \in {"failed", "expired", "pending"} THEN "abort"
    ELSE IF status = "completed" THEN "break" ELSE "sleep"

\* What one iteration does with the status it retrieved.
PollOutcome(status) ==
    IF status \in {"failed", "expired"} THEN "abort"
    ELSE IF status = "completed" THEN "break" ELSE "sleep"

\* sys.exit(...) in generate_soap_notes / generate_soap_sections,
\* raise RuntimeError(...) in generate_transcriptions_batch.
JobFailure == IF stage = "tx_batch" THEN "RuntimeError" ELSE "SystemExit"

\* One iteration: retrieve, test, and (otherwise) sleep.
Poll ==
    /\ stage \in BatchStages /\ pc = "poll" /\ polls < MaxPolls
    /\ polls' = polls + 1
    /\ batch_status' = remote
    /\ observed' = Append(observed, remote)
    /\ LET o == PollOutcome(remote) IN
         /\ pc' = (CASE o = "abort" -> "aborted"
                     [] o = "break" -> "download"
                     [] OTHER -> "poll")
         /\ failure' = (IF o = "abort" THEN JobFailure ELSE failure)
    /\ UNCHANGED <<stage, inFile, idx, tx_map, soap_map, sections, missing,
                   reqFile, jobs, remote, downloaded, outFile, final,
                   finalCreated, reported, buildVars, extVars>>

\* ---------------------------------------------------------- download
Download ==
    /\ stage \in BatchStages /\ pc = "download"
    /\ downloaded' = TRUE
    /\ outFile' \in (IF stage = "soap_sections" THEN AugRespFiles(reqFile)
                     ELSE RespFiles)
    /\ idx' = 0
    /\ pc' = (CASE stage = "tx_batch" -> "parse"
                [] stage = "soap_notes" -> "open_master"
                [] stage = "soap_sections" -> "flatten")
    /\ UNCHANGED <<stage, failure, inFile, tx_map, soap_map, sections, missing,
                   reqFile, jobs, remote, batch_status, polls, observed, final,
                   finalCreated, reported, buildVars, extVars>>

\* ------------------------- generate_transcriptions_batch.py, step 5
\* One iteration of the loop that fills tx_map from batch_output.jsonl.
ParseTx ==
    /\ stage = "tx_batch" /\ pc = "parse" /\ idx < Len(outFile)
    /\ LET rec == outFile[idx + 1] IN
         /\ idx' = idx + 1
         /\ IF Succeeded(rec)
            THEN IF Extractable(rec)
                 THEN /\ tx_map' = Put(tx_map, rec.custom_id, idx + 1)
                      /\ UNCHANGED <<pc, failure>>
                 ELSE /\ pc' = "aborted"
                      /\ failure' = "JSONDecodeError"
                      /\ UNCHANGED tx_map
            ELSE UNCHANGED <<pc, failure, tx_map>>
    /\ UNCHANGED <<stage, inFile, soap_map, sections, missing, reqFile, jobs,
                   remote, batch_status, polls, observed, downloaded, outFile,
                   final, finalCreated, reported, buildVars, extVars>>

\* if len(tx_map) != CONFIG["TARGET_ROWS"]: raise
CountOk(map) == Cardinality(DOMAIN map) = TARGET_ROWS

\* df["transcription"] = df["row_id"].map(tx_map); df.to_json(...):
\* a row whose id is not a key of the map gets a null transcription.
MapRows(ids, map) ==
    [i \in 1..Len(ids) |->
        [row_id |-> ids[i],
         transcription |-> IF ids[i] \in DOMAIN map THEN map[ids[i]] ELSE Null,
         soap |-> Null]]

CountCheck ==
    /\ stage = "tx_batch" /\ pc = "parse" /\ idx = Len(outFile)
    /\ IF CountOk(tx_map)
       THEN /\ final' = MapRows(DfIds, tx_map)
            /\ finalCreated' = TRUE
            /\ pc' = "done"
            /\ UNCHANGED failure
       ELSE /\ pc' = "aborted"
            /\ failure' = "RuntimeError"
            /\ UNCHANGED <<final, finalCreated>>
    /\ UNCHANGED <<stage, inFile, idx, tx_map, soap_map, sections, missing,
                   reqFile, jobs, remote, batch_status, polls, observed,
                   downloaded, outFile, reported, buildVars, extVars>>

\* ---------------------------------------- generate_soap_notes.py, step 9
\* open(MASTER_OUT, "w"): the final file exists, empty, from here on.
OpenMaster ==
    /\ stage = "soap_notes" /\ pc = "open_master"
    /\ finalCreated' = TRUE
    /\ final' = <<>>
    /\ idx' = 0
    /\ pc' = "merge"
    /\ UNCHANGED <<stage, failure, inFile, tx_map, soap_map, sections, missing,
                   reqFile, jobs, remote, batch_status, polls, observed,
                   downloaded, outFile, reported, buildVars, extVars>>

\* One iteration of the merge loop over soap_output.jsonl.
MergeSoap ==
    /\ stage = "soap_notes" /\ pc = "merge" /\ idx < Len(outFile)
    /\ LET rec == outFile[idx + 1]
           cid == rec.custom_id
       IN
         /\ idx' = idx + 1
         /\ IF ~Succeeded(rec)
            THEN UNCHANGED <<pc, failure, final>>
            ELSE IF ~Extractable(rec)
                 THEN /\ pc' = "aborted"
                      /\ failure' = "JSONDecodeError"
                      /\ UNCHANGED final
                 ELSE IF cid \notin WorkIds
                      THEN /\ pc' = "aborted"
                           /\ failure' = "KeyError"
                           /\ UNCHANGED final
                      ELSE /\ final' = Append(final,
                                  [row_id |-> cid,
                                   transcription |-> tx_map[cid],
                                   soap |-> idx + 1])
                           /\ UNCHANGED <<pc, failure>>
    /\ UNCHANGED <<stage, inFile, tx_map, soap_map, sections, missing, reqFile,
                   jobs, remote, batch_status, polls, observed, downloaded,
                   outFile, finalCreated, reported, buildVars, extVars>>

MergeDone ==
    /\ stage = "soap_notes" /\ pc = "merge" /\ idx = Len(outFile)
    /\ pc' = "done"
    /\ UNCHANGED <<stage, failure, inFile, idx, tx_map, soap_map, sections,
                   missing, reqFile, jobs, remote, batch_status, polls,
                   observed, downloaded, outFile, final, finalCreated,
                   reported, buildVars, extVars>>

\* ------------------------------------- generate_soap_sections.py, step 6
\* CONFIG["FINAL_DATA"] is a str, so CONFIG["FINAL_DATA"].open("w", ...)
\* raises AttributeError before the final file is created or a line is read.
FlattenOpen ==
    /\ stage = "soap_sections" /\ pc = "flatten"
    /\ pc' = "aborted"
    /\ failure' = "AttributeError"
    /\ UNCHANGED <<stage, inFile, idx, tx_map, soap_map, sections, missing,
                   reqFile, jobs, remote, batch_status, polls, observed,
                   downloaded, outFile, final, finalCreated, reported,
                   buildVars, extVars>>

\* ------------------------------------------------- merge_soap_clean.py
\* One iteration of the loop that fills soap_map from soap_output.jsonl.
LoadResponses ==
    /\ stage = "merge_clean" /\ pc = "load_resp" /\ idx < Len(inFile)
    /\ LET rec == inFile[idx + 1] IN
         /\ idx' = idx + 1
         /\ IF ~Succeeded(rec)
            THEN UNCHANGED <<pc, failure, soap_map>>
            ELSE IF Extractable(rec)
                 THEN /\ soap_map' = Put(soap_map, rec.custom_id, idx + 1)
                      /\ UNCHANGED <<pc, failure>>
                 ELSE /\ pc' = "aborted"
                      /\ failure' = "JSONDecodeError"
                      /\ UNCHANGED soap_map
    /\ UNCHANGED <<stage, inFile, tx_map, sections, missing, reqFile, jobs,
                   remote, batch_status, polls, observed, downloaded, outFile,
                   final, finalCreated, reported, buildVars, extVars>>

\* A merge that writes a record for every request, with or without a
\* payload (the mutant of MergeRecords).
MergeRecords_NoSkip(ids, map) ==
    [i \in 1..Len(ids) |->
        [row_id |-> ids[i],
         transcription |-> Null,
         soap |-> IF ids[i] \in DOMAIN map THEN map[ids[i]] ELSE Null]]

\* for cid, base in req_facts.items(): if cid not in soap_map: continue;
\* write {**base, **soap_map[cid]}
MergeRecords(ids, map) ==
    LET keep == SelectSeq(ids, LAMBDA c : c \in DOMAIN map)
    IN  [i \in 1..Len(keep) |->
            [row_id |-> keep[i], transcription |-> Null, soap |-> map[keep[i]]]]

\* A report of the number of requests (the mutant of LineCount).
LineCount_Requested(lines) == TARGET_ROWS

\* sum(1 for _ in open(outfile))
LineCount(lines) == Len(lines)

\* The merge, the write of the final file and the printed line count.
MergeWrite ==
    /\ stage = "merge_clean" /\ pc = "load_resp" /\ idx = Len(inFile)
    /\ finalCreated' = TRUE
    /\ final' = MergeRecords(DfIds, soap_map)
    /\ reported' = LineCount(final')
    /\ pc' = "done"
    /\ UNCHANGED <<stage, failure, inFile, idx, tx_map, soap_map, sections,
                   missing, reqFile, jobs, remote, batch_status, polls,
                   observed, downloaded, outFile, buildVars, extVars>>

\* ----------------------------------------------------- specifications
ProgramStep ==
    \/ LoadTx \/ CheckMissing
    \/ LoadSections \/ SectionsLoaded
    \/ WriteInput \/ Launch \/ Poll \/ Download
    \/ ParseTx \/ CountCheck
    \/ OpenMaster \/ MergeSoap \/ MergeDone
    \/ FlattenOpen
    \/ LoadResponses \/ MergeWrite

Next ==
    \/ LoadTx
    \/ CheckMissing
    \/ LoadSections
    \/ SectionsLoaded
    \/ WriteInput
    \/ Launch
    \/ RemoteStep
    \/ Poll
    \/ Download
    \/ ParseTx
    \/ CountCheck
    \/ OpenMaster
    \/ MergeSoap
    \/ MergeDone
    \/ FlattenOpen
    \/ LoadResponses
    \/ MergeWrite

Spec == Init /\ [][Next]_vars

\* The file of the previous stage with one good line per row, in order.
CompleteFile ==
    [i \in 1..TARGET_ROWS |->
        [custom_id |-> DfIds[i], status_code |-> 200, content |-> "json"]]

\* The runs that start from a complete file of the previous stage (the poll
\* loop reads nothing of it).
LiveInit == Init /\ (stage # "tx_batch" => inFile = CompleteFile)

\* A script is a sequential program: while it has a next statement, it
\* executes it.  Nothing is assumed of the remote job.
LiveSpec == LiveInit /\ [][Next]_vars /\ WF_vars(ProgramStep)

\* ------------------------- generate_transcriptions_batch.build_rows
Genders == {"Male", "Female", "Non-binary"}
YesNo == {"Yes", "No"}
\* The extreme values of rand_age and rand_bp; one complaint of BASE_CC.
Ages == {18, 90}
BloodPressures == {"100/60", "180/110"}
BASE_CC == {"cough"}

\* range(CONFIG["TARGET_ROWS"]): the number of rows build_rows(_n) makes
\* does not depend on its argument.
RowCount(n) == TARGET_ROWS

InitBuild ==
    /\ StageIdle
    /\ ExtIdle
    /\ bN \in 0..MaxN
    /\ bI = 0
    /\ bRows = <<>>
    /\ bPc = "loop"

\* One iteration of the for loop: a row with random facts is appended.
BuildRow ==
    /\ bPc = "loop" /\ bI < RowCount(bN)
    /\ \E g \in Genders, a \in Ages, s \in YesNo, d \in YesNo,
          b \in BloodPressures, c \in BASE_CC :
         bRows' = Append(bRows,
             [row_id |-> RowId(bI), gender |-> g, age |-> a, smoker |-> s,
              drinker |-> d, blood_pressure |-> b, chief_complaint |-> c])
    /\ bI' = bI + 1
    /\ UNCHANGED <<bN, bPc, stageVars, extVars>>

\* return pd.DataFrame(rows)
BuildReturn ==
    /\ bPc = "loop" /\ bI = RowCount(bN)
    /\ bPc' = "returned"
    /\ UNCHANGED <<bN, bI, bRows, stageVars, extVars>>

NextBuild ==
    \/ BuildRow
    \/ BuildReturn

SpecBuild == InitBuild /\ [][NextBuild]_vars

\* ------------------- generate_soap_sections.py: custom_id encode / split
\* str.split(sep, maxsplit): cut at the first maxsplit occurrences of sep,
\* from the left; the last part keeps the rest of the string.
RECURSIVE SplitMax(_, _, _)
SplitMax(s, sep, maxsplit) ==
    LET P == {i \in 1..Len(s) : s[i] = sep}
    IN  IF maxsplit = 0 \/ P = {}
        THEN <<s>>
        ELSE LET i == CHOOSE x \in P : \A y \in P : x <= y
             IN  <<SubSeq(s, 1, i - 1)>>
                 \o SplitMax(SubSeq(s, i + 1, Len(s)), sep, maxsplit - 1)

\* A split at every delimiter (the mutant of Decode).
Decode_SplitAll(id) == SplitMax(id, "_", Len(id))

\* j["custom_id"].split("_", 2)
Decode(id) == SplitMax(id, "_", 2)

\* A parent id that contains the delimiter.
DelimitedId == <<"r", "o", "w", "_", "1">>

\* The parent ids a custom_id is built from: the keys of `sections` are the
\* custom_ids of soap_output.jsonl, whatever they are.
ParentIds == WorkIds \cup {ForeignId, DelimitedId, <<>>}

\* The (cid, label, slug) triples of the three nested loops of the builder.
Triples ==
    {[cid |-> c, label |-> SOAP_LABELS[l], slug |-> FORMAT_SLUGS[f]] :
        c \in ParentIds, l \in 1..Len(SOAP_LABELS), f \in 1..Len(FORMAT_SLUGS)}

InitSplit ==
    /\ StageIdle /\ BuildIdle /\ RetryIdle /\ GrabIdle /\ MainIdle
    /\ spA \in Triples /\ spB \in Triples
    /\ spIdA = <<>> /\ spIdB = <<>>
    /\ spPartsA = <<>> /\ spPartsB = <<>>
    /\ spPc = "encode"

\* "custom_id": f"{cid}_{label}_{slug}"
EncodeIds ==
    /\ spPc = "encode"
    /\ spIdA' = EncodeId(spA.cid, spA.label, spA.slug)
    /\ spIdB' = EncodeId(spB.cid, spB.label, spB.slug)
    /\ spPc' = "split"
    /\ UNCHANGED <<spA, spB, spPartsA, spPartsB, exceptSplit>>

\* cid, section, slug = j["custom_id"].split("_", 2): the unpacking raises
\* ValueError unless the split yields exactly three parts.
SplitIds ==
    /\ spPc = "split"
    /\ spPartsA' = Decode(spIdA)
    /\ spPartsB' = Decode(spIdB)
    /\ spPc' = (IF Len(spPartsA') = 3 /\ Len(spPartsB') = 3
                THEN "unpacked" ELSE "ValueError")
    /\ UNCHANGED <<spA, spB, spIdA, spIdB, exceptSplit>>

NextSplit ==
    \/ EncodeIds
    \/ SplitIds

SpecSplit == InitSplit /\ [][NextSplit]_vars

\* ------------------------------------------------ generate_complaints.py
\* \s and [a-zA-Z] over the characters of the model's texts.
WS == {" ", "\n"}
Letters == {"j", "p"}

\* The backtick character.
BQ == "bq"

Fence == <<BQ, BQ, BQ>>

StartsWith(s, p) == Len(s) >= Len(p) /\ SubSeq(s, 1, Len(p)) = p
EndsWith(s, p) ==
    Len(s) >= Len(p) /\ SubSeq(s, Len(s) - Len(p) + 1, Len(s)) = p

\* The longest prefix / suffix of characters of S removed.
RECURSIVE DropLeading(_, _)
DropLeading(s, S) ==
    IF s # <<>> /\ s[1] \in S THEN DropLeading(Tail(s), S) ELSE s

RECURSIVE DropTrailing(_, _)
DropTrailing(s, S) ==
    IF s # <<>> /\ s[Len(s)] \in S
    THEN DropTrailing(SubSeq(s, 1, Len(s) - 1), S) ELSE s

\* str.strip()
Strip(s) == DropTrailing(DropLeading(s, WS), WS)

\* re.sub(r"^```[a-zA-Z]*\s*", "", raw)
OpenFence(s) ==
    IF StartsWith(s, Fence)
    THEN DropLeading(DropLeading(SubSeq(s, 4, Len(s)), Letters), WS)
    ELSE s

\* A substitution that deletes every fence of the text (the mutant of
\* CloseFence).
RECURSIVE CloseFence_Everywhere(_)
CloseFence_Everywhere(s) ==
    IF s = <<>> THEN <<>>
    ELSE IF StartsWith(s, Fence)
         THEN CloseFence_Everywhere(SubSeq(s, 4, Len(s)))
         ELSE <<s[1]>> \o CloseFence_Everywhere(Tail(s))

\* re.sub(r"\s*```$", "", raw): $ matches at the end of the text and before
\* a newline that ends it.
CloseFence(s) ==
    IF EndsWith(s, Fence)
    THEN DropTrailing(SubSeq(s, 1, Len(s) - 3), WS)
    ELSE IF EndsWith(s, Fence \o <<"\n">>)
         THEN DropTrailing(SubSeq(s, 1, Len(s) - 4), WS) \o <<"\n">>
         ELSE s

\* re.search(r"\[.*\]", raw, re.S): from the first "[" to the last "]"
\* after it; "" when there is none.
SearchArray(s) ==
    LET O == {i \in 1..Len(s) : s[i] = "["}
    IN  IF O = {} THEN <<>>
        ELSE LET i == CHOOSE x \in O : \A y \in O : x <= y
                 C == {j \in (i + 1)..Len(s) : s[j] = "]"}
             IN  IF C = {} THEN <<>>
                 ELSE SubSeq(s, i, CHOOSE x \in C : \A y \in C : y <= x)

clean_json(raw) ==
    LET t == Strip(raw)
        u == IF StartsWith(t, Fence) THEN CloseFence(OpenFence(t)) ELSE t
    IN  SearchArray(u)

\* json.loads over the characters of the model's texts: numbers (runs of
\* "1") and arrays, with whitespace between tokens.  Each parser returns the
\* position after what it parsed, 0 when it fails.
RECURSIVE SkipWs(_, _)
SkipWs(s, i) == IF i <= Len(s) /\ s[i] \in WS THEN SkipWs(s, i + 1) ELSE i

RECURSIVE SkipDigits(_, _)
SkipDigits(s, i) ==
    IF i <= Len(s) /\ s[i] = "1" THEN SkipDigits(s, i + 1) ELSE i

RECURSIVE ParseValue(_, _)
RECURSIVE ParseMore(_, _)
ParseValue(s, i) ==
    LET k == SkipWs(s, i)
    IN  IF k > Len(s) THEN 0
        ELSE IF s[k] = "1" THEN SkipDigits(s, k)
        ELSE IF s[k] = "["
             THEN LET n == SkipWs(s, k + 1)
                  IN  IF n <= Len(s) /\ s[n] = "]" THEN n + 1
                      ELSE LET e == ParseValue(s, n)
                           IN  IF e = 0 THEN 0 ELSE ParseMore(s, e)
             ELSE 0

\* After an element of an array: "]" ends it, "," announces another.
ParseMore(s, i) ==
    LET k == SkipWs(s, i)
    IN  IF k > Len(s) THEN 0
        ELSE IF s[k] = "]" THEN k + 1
        ELSE IF s[k] = ","
             THEN LET e == ParseValue(s, k + 1)
                  IN  IF e = 0 THEN 0 ELSE ParseMore(s, e)
             ELSE 0

\* json.loads(s) returns (TRUE) or raises JSONDecodeError (FALSE).
JsonLoads(s) ==
    LET e == ParseValue(s, 1) IN e # 0 /\ SkipWs(s, e) > Len(s)

\* The texts the model may answer with: a head, up to MaxChunks chunks, a
\* tail.
Arr == <<"[", "1", ",", "1", "]">>
Heads == {<<>>, Fence, Fence \o <<"j", "\n">>,
          <<"\n">> \o Fence \o <<"j", "\n">>, <<"p", " ">>}
Tails == {<<>>, Fence, <<"\n">> \o Fence, <<"\n">> \o Fence \o <<"\n">>,
          <<" ", "p">>}
Chunks == {Arr, <<"[">>, <<"]">>, <<"p">>, Fence, <<" ">>}

RECURSIVE Flatten(_)
Flatten(ss) == IF ss = <<>> THEN <<>> ELSE Head(ss) \o Flatten(Tail(ss))

Raws ==
    {h \o Flatten(b) \o t :
        h \in Heads, b \in SeqsUpTo(Chunks, MaxChunks), t \in Tails}

\* stop_after_attempt(6) / CONFIG["RETRY_ATTEMPTS"]
RETRY_ATTEMPTS == 6

\* A wrapper that allows one attempt more (the mutant of RetryStop).
RetryStop_OneMore(attempt) == attempt >= RETRY_ATTEMPTS + 1

\* stop_after_attempt: no attempt follows a failed attempt number `attempt`.
RetryStop(attempt) == attempt >= RETRY_ATTEMPTS

\* The wrapper after an attempt: the value is returned on success; a failure
\* is retried (after a random wait) unless the wrapper stops, and then
\* RetryError is raised to the caller.
AfterAttempt(ok, attempt) ==
    IF ok THEN "returned"
    ELSE IF RetryStop(attempt) THEN "raised" ELSE "call"

WrappedFns == {"fetch_complaints", "refine_complaint", "make_transcript"}

\* client.chat.completions.create raised: there is no answer text.
APIError == <<"APIError">>

\* One attempt of fetch_complaints: the completion call raises (no content)
\* or returns a text; the text is cleaned and decoded.
FetchAttempt ==
    /\ rFn = "fetch_complaints" /\ rPc = "call"
    /\ \E raw \in Raws \cup {APIError} :
         /\ rRaw' = raw
         /\ rCleaned' = (IF raw = APIError THEN <<>> ELSE clean_json(raw))
         /\ rHist' = Append(rHist, raw # APIError /\ JsonLoads(rCleaned'))
    /\ rPc' = "attempted"
    /\ UNCHANGED <<rFn, exceptRetry>>

\* One attempt of refine_complaint / make_transcript: the completion call
\* and the decoding of its content succeed or raise.
WrappedAttempt ==
    /\ rFn \in {"refine_complaint", "make_transcript"} /\ rPc = "call"
    /\ \E ok \in BOOLEAN : rHist' = Append(rHist, ok)
    /\ rPc' = "attempted"
    /\ UNCHANGED <<rFn, rRaw, rCleaned, exceptRetry>>

\* The wrapper takes the outcome of the attempt; the locals of a failed
\* attempt are gone when the function is called again.
RetryDecide ==
    /\ rPc = "attempted"
    /\ rPc' = AfterAttempt(rHist[Len(rHist)], Len(rHist))
    /\ IF rPc' = "call"
       THEN rRaw' = <<>> /\ rCleaned' = <<>>
       ELSE UNCHANGED <<rRaw, rCleaned>>
    /\ UNCHANGED <<rFn, rHist, exceptRetry>>

\* complaints = fetch_complaints(); ...; json.dump(complaints, f)
SaveComplaints ==
    /\ rFn = "fetch_complaints" /\ rPc = "returned"
    /\ rPc' = "saved"
    /\ UNCHANGED <<rFn, rHist, rRaw, rCleaned, exceptRetry>>

InitComplaints ==
    /\ StageIdle /\ BuildIdle /\ SplitIdle /\ GrabIdle /\ MainIdle
    /\ rFn = "fetch_complaints" /\ rHist = <<>> /\ rRaw = <<>>
    /\ rCleaned = <<>> /\ rPc = "call"

NextComplaints ==
    \/ FetchAttempt
    \/ RetryDecide
    \/ SaveComplaints

SpecComplaints == InitComplaints /\ [][NextComplaints]_vars

\* ----------------------------- generate_soap_notes.py: the regex extractor
QUOTE == "\""
BACKSLASH == "\\"

\* The literal  {"transcription"  that opens the pattern.
KeyLit ==
    <<"{", QUOTE, "t", "r", "a", "n", "s", "c", "r", "i", "p", "t", "i",
      "o", "n", QUOTE>>

NoMatch == [matched |-> FALSE, group |-> <<>>]

\* The positions at which re.match tries the pattern: the start of the
\* content only.
MatchAt(content) == IF StartsWith(content, KeyLit) THEN {1} ELSE {}

\* grab_tx.match(content), grab_tx = re.compile(
\*     r'{"transcription"\s*:\s*"(.*)"}', re.S):
\* after the literal, \s*, ":", \s* and the opening quote, the group (.*)
\* is greedy: it runs to the LAST  "}  of the content.
MatchTx(content) ==
    IF MatchAt(content) = {} THEN NoMatch
    ELSE
      LET s  == LET P == MatchAt(content)
                IN  SubSeq(content, CHOOSE x \in P : \A y \in P : x <= y,
                           Len(content))
          k1 == SkipWs(s, Len(KeyLit) + 1)
          k2 == SkipWs(s, k1 + 1)
          E  == {j \in (k2 + 1)..(Len(s) - 1) :
                    s[j] = QUOTE /\ s[j + 1] = "}"}
      IN  IF k1 > Len(s) \/ s[k1] # ":" THEN NoMatch
          ELSE IF k2 > Len(s) \/ s[k2] # QUOTE THEN NoMatch
          ELSE IF E = {} THEN NoMatch
          ELSE [matched |-> TRUE,
                group |-> SubSeq(s, k2 + 1,
                                 (CHOOSE x \in E : \A y \in E : y <= x) - 1)]

\* The pieces a transcription is written with, as they stand in JSON text:
\* a letter, a space, an escaped quote, an escaped newline, an escaped
\* backslash.
TextChunks ==
    {<<"h">>, <<" ">>, <<BACKSLASH, QUOTE>>, <<BACKSLASH, "n">>,
     <<BACKSLASH, BACKSLASH>>}

Spaces == {<<>>, <<" ">>}

\* The JSON text of the one-key object whose transcription is written
\* `text`, with optional whitespace around the colon.
TxObject(ws1, ws2, text) ==
    KeyLit \o ws1 \o <<":">> \o ws2 \o <<QUOTE>> \o text \o <<QUOTE, "}">>

\* What may come before and after the object in the content of a response.
Leads == {<<>>, <<" ">>, <<"\n">>, <<"p", " ">>}
Trails == {<<>>, <<"\n">>, <<" ", "p">>, <<" ", QUOTE, "p", QUOTE, "}">>}

\* Contents that hold no complete object.
Malformed ==
    {<<>>, <<"p">>, KeyLit \o <<":", QUOTE, "h">>, KeyLit \o <<QUOTE, "h">>}

GrabInputs ==
    {[lead |-> l, kind |-> "object", ws1 |-> a, ws2 |-> b,
      text |-> Flatten(t), trail |-> r] :
        l \in Leads, a \in Spaces, b \in Spaces,
        t \in SeqsUpTo(TextChunks, MaxText), r \in Trails}
    \cup
    {[lead |-> l, kind |-> "malformed", ws1 |-> <<>>, ws2 |-> <<>>,
      text |-> m, trail |-> r] :
        l \in Leads, m \in Malformed, r \in Trails}

\* content = raw["choices"][0]["message"]["content"]
Content(in) ==
    in.lead
    \o (IF in.kind = "object" THEN TxObject(in.ws1, in.ws2, in.text)
        ELSE in.text)
    \o in.trail

InitGrab ==
    /\ StageIdle /\ BuildIdle /\ SplitIdle /\ RetryIdle /\ MainIdle
    /\ gtIn \in GrabInputs
    /\ gtMatch = Null
    /\ gtPc = "match"

\* m = grab_tx.match(content); if not m: raise ValueError(...);
\* tx_map[...] = m.group(1)
GrabTx ==
    /\ gtPc = "match"
    /\ gtMatch' = MatchTx(Content(gtIn))
    /\ gtPc' = (IF gtMatch'.matched THEN "stored" ELSE "ValueError")
    /\ UNCHANGED <<gtIn, exceptGrab>>

NextGrab ==
    \/ GrabTx

SpecGrab == InitGrab /\ [][NextGrab]_vars

\* ------------------------------------- generate_transcriptions.py: main
\* A record is identified by its key, tuple(rec[f] for f in UNIQUE_KEY).
Keys == 1..MaxKeys

\* A group size that ignores how many rows are still wanted (the mutant of
\* Min).
Min_First(a, b) == a

Min(a, b) == IF a <= b THEN a ELSE b

\* for rec in results: if key in seen: continue; rows.append(rec);
\* seen.add(key)
RECURSIVE AcceptAll(_, _)
AcceptAll(acc, results) ==
    IF results = <<>> THEN acc
    ELSE LET k == Head(results)
         IN  AcceptAll(IF k \in acc.seen THEN acc
                       ELSE [rows |-> Append(acc.rows, k),
                             seen |-> acc.seen \cup {k}],
                       Tail(results))

\* Results handed over in the order of completion, as asyncio.as_completed
\* would (the mutant of GatherResults).
GatherResults_AsCompleted(calls, order) ==
    [i \in 1..Len(calls) |-> calls[order[i]].key]

\* await asyncio.gather(*batch_jobs): the results, in the order of the
\* awaitables, whatever the order of completion.
GatherResults(calls, order) == [i \in 1..Len(calls) |-> calls[i].key]

\* rows[-CONFIG["CHECKPOINT_ROWS"]:]
LastRows(rows, n) ==
    SubSeq(rows, IF Len(rows) > n THEN Len(rows) - n + 1 ELSE 1, Len(rows))

Running(calls) == {i \in 1..Len(calls) : calls[i].st = "running"}

InitMain ==
    /\ StageIdle /\ BuildIdle /\ SplitIdle /\ RetryIdle /\ GrabIdle
    /\ mRows = <<>> /\ mSeen = {} /\ mCalls = <<>> /\ mOrder = <<>>
    /\ mBefore = <<>> /\ mGroups = 0 /\ mChunkIdx = 0
    /\ mCheckpoints = <<>> /\ mMaster = <<>>
    /\ mPc = "loop"

\* while len(rows) < TARGET_ROWS: batch_size = min(...);
\* batch_jobs = [generate_one() for _ in range(batch_size)]; gather starts
\* them all.
StartGroup ==
    /\ mPc = "loop" /\ Len(mRows) < TX_TARGET_ROWS /\ mGroups < MaxGroups
    /\ LET batch_size == Min(BATCH_SIZE, TX_TARGET_ROWS - Len(mRows))
       IN  mCalls' = [i \in 1..batch_size |-> [st |-> "running", key |-> Null]]
    /\ mOrder' = <<>>
    /\ mBefore' = mRows
    /\ mGroups' = mGroups + 1
    /\ mPc' = "gather"
    /\ UNCHANGED <<mRows, mSeen, mChunkIdx, mCheckpoints, mMaster, exceptMain>>

\* One generate_one call of the group ends: it returns a record, or raises
\* (a wrapped LLM call gave up).
CallDone ==
    /\ mPc = "gather"
    /\ \E i \in Running(mCalls) :
         /\ \/ \E k \in Keys :
                 mCalls' = [mCalls EXCEPT ![i] = [st |-> "done", key |-> k]]
            \/ mCalls' = [mCalls EXCEPT ![i] = [st |-> "failed", key |-> Null]]
         /\ mOrder' = Append(mOrder, i)
    /\ UNCHANGED <<mRows, mSeen, mBefore, mGroups, mChunkIdx, mCheckpoints,
                   mMaster, mPc, exceptMain>>

\* gather re-raises the exception of a failed call in main, which has no
\* handler; asyncio.run cancels the calls still running.
GatherRaise ==
    /\ mPc = "gather"
    /\ \E i \in 1..Len(mCalls) : mCalls[i].st = "failed"
    /\ mCalls' = [i \in 1..Len(mCalls) |->
                    IF mCalls[i].st = "running"
                    THEN [st |-> "cancelled", key |-> Null] ELSE mCalls[i]]
    /\ mPc' = "raised"
    /\ UNCHANGED <<mRows, mSeen, mOrder, mBefore, mGroups, mChunkIdx,
                   mCheckpoints, mMaster, exceptMain>>

\* gather returns when every call has returned; the rest of the iteration:
\* the loop over the results and the checkpoint logic.
GatherReturn ==
    /\ mPc = "gather"
    /\ \A i \in 1..Len(mCalls) : mCalls[i].st = "done"
    /\ LET acc == AcceptAll([rows |-> mRows, seen |-> mSeen],
                            GatherResults(mCalls, mOrder))
       IN  /\ mRows' = acc.rows
           /\ mSeen' = acc.seen
           /\ IF Len(acc.rows) \div CHECKPOINT_ROWS > mChunkIdx
              THEN /\ mChunkIdx' = mChunkIdx + 1
                   /\ mCheckpoints' =
                        Append(mCheckpoints, LastRows(acc.rows, CHECKPOINT_ROWS))
              ELSE UNCHANGED <<mChunkIdx, mCheckpoints>>
    /\ mPc' = "loop"
    /\ UNCHANGED <<mCalls, mOrder, mBefore, mGroups, mMaster, exceptMain>>

\* The loop exits; write_jsonl(master_path, rows).
WriteMaster ==
    /\ mPc = "loop" /\ Len(mRows) >= TX_TARGET_ROWS
    /\ mMaster' = mRows
    /\ mPc' = "written"
    /\ UNCHANGED <<mRows, mSeen, mCalls, mOrder, mBefore, mGroups, mChunkIdx,
                   mCheckpoints, exceptMain>>

NextMain ==
    \/ StartGroup
    \/ CallDone
    \/ GatherRaise
    \/ GatherReturn
    \/ WriteMaster

SpecMain == InitMain /\ [][NextMain]_vars

\* ------------------------- the retry wrapper and the batch stages together
\* A call of one of the three wrapped functions.
InitWrapped ==
    /\ StageIdle /\ BuildIdle /\ SplitIdle /\ GrabIdle /\ MainIdle
    /\ rFn \in WrappedFns /\ rHist = <<>> /\ rRaw = <<>>
    /\ rCleaned = <<>> /\ rPc = "call"

\* A run is a run of a batch stage (no wrapper there: the scripts do not
\* import tenacity) or a call of a wrapped function.
InitRetry == Init \/ InitWrapped

NextRetry ==
    \/ LoadTx
    \/ CheckMissing
    \/ LoadSections
    \/ SectionsLoaded
    \/ WriteInput
    \/ Launch
    \/ RemoteStep
    \/ Poll
    \/ Download
    \/ ParseTx
    \/ CountCheck
    \/ OpenMaster
    \/ MergeSoap
    \/ MergeDone
    \/ FlattenOpen
    \/ LoadResponses
    \/ MergeWrite
    \/ FetchAttempt
    \/ WrappedAttempt
    \/ RetryDecide
    \/ SaveComplaints

SpecRetry == InitRetry /\ [][NextRetry]_vars

\* =================================================================
\* The claims
\* =================================================================
SuccessOrFailure == {"completed", "failed", "expired"}

\* The position of the first status of obs in {completed, failed, expired};
\* 0 when there is none.
FirstTerminal(obs) ==
    LET P == {i \in 1..Len(obs) : obs[i] \in SuccessOrFailure}
    IN  IF P = {} THEN 0 ELSE CHOOSE i \in P : \A j \in P : i <= j

\* The stage has created its job and is no longer in the poll loop.
LoopLeft == stage \in BatchStages /\ jobs > 0 /\ pc # "poll"

\* C1: for every sequence of statuses the queries return, the poll loop makes
\* exactly k queries, k the position of the first status in {completed,
\* failed, expired}, and none afterwards; it goes on to the download when
\* that status is completed and ends in failure when it is failed or expired.
C1_PollCount ==
    /\ Len(observed) = polls
    /\ (stage \in BatchStages /\ pc = "poll") => FirstTerminal(observed) = 0
    /\ LoopLeft =>
         /\ polls > 0
         /\ polls = FirstTerminal(observed)
         /\ observed[polls] = "completed" => (pc = "download" \/ downloaded)
         /\ observed[polls] \in {"failed", "expired"} =>
              (pc = "aborted" /\ failure = JobFailure /\ ~downloaded)

C1_Witness ==
    /\ LoopLeft
    /\ observed = <<"pending", "running", "completed">>
    /\ polls = 3
    /\ downloaded

\* C2: the output is downloaded (and the output handle read) only while the
\* status returned by the latest query is completed.
C2_DownloadOnlyCompleted ==
    (pc = "download" \/ downloaded) => batch_status = "completed"

C2_Witness ==
    /\ downloaded
    /\ batch_status = "completed"
    /\ polls >= 2
    /\ observed[1] = "pending"

\* C3: when a query returns a terminal status that is not completed (failed,
\* expired, or any other: cancelled), the stage has aborted with a failure
\* signal: it is not waiting to poll again, has created no second job, has
\* downloaded nothing and has not written its final dataset file.
C3_AbortOnNonSuccessTerminal ==
    (stage \in BatchStages /\ polls > 0
        /\ batch_status \in RemoteTerminal \ {"completed"})
    => (pc = "aborted" /\ failure = JobFailure /\ jobs = 1
          /\ ~downloaded /\ ~finalCreated)

\* C4: the poll loop has no attempt cap: it is left only on a status in
\* {completed, failed, expired}, and while it is in the loop another poll is
\* always possible; once the remote job is in one of these (terminal) states,
\* the loop terminates.
C4_NoCapTerminates ==
    /\ [](LoopLeft => batch_status \in SuccessOrFailure)
    /\ []((stage \in BatchStages /\ pc = "poll" /\ polls < MaxPolls)
            => ENABLED Poll)
    /\ ((stage \in BatchStages /\ pc = "poll" /\ polls < MaxPolls
            /\ remote \in SuccessOrFailure) ~> (pc # "poll"))

C4_Witness ==
    /\ LoopLeft
    /\ polls >= 3
    /\ observed[polls] = "expired"
    /\ observed[polls - 1] = "running"

\* ---------------------------------------------------------------
\* The response file a stage merges, and what was paired from it.
MergedFile == IF stage = "merge_clean" THEN inFile ELSE outFile

\* The file the loop that ran last was reading.
ReadFile ==
    IF stage = "tx_batch" \/ (stage = "soap_notes" /\ downloaded)
    THEN outFile ELSE inFile

\* A line with a success status whose content cannot be parsed.
BadRec(r) == r.status_code = 200 /\ r.content = "garbage"
GoodRec(r) == r.status_code = 200 /\ r.content = "json"

FinalIds == {final[i].row_id : i \in 1..Len(final)}

\* The ids with a successfully extracted payload in file f.
ExtractedIn(f) == {f[i].custom_id : i \in {j \in 1..Len(f) : GoodRec(f[j])}}

\* C5 (as claimed): the merge emits a merged record for exactly the ids in
\* W \cap E and reports exactly the ids in W \ E as missing.
C5_MergeAndMissing ==
    (stage = "merge_clean" /\ pc = "done") =>
        /\ FinalIds = WorkIds \cap DOMAIN soap_map
        /\ missing = WorkIds \ DOMAIN soap_map

\* C5 (amended): merge_soap_clean emits one merged record for exactly the ids
\* in W \cap E, each with the payload of its own id, and leaves out the ids in
\* W \ E without reporting them as missing; merged and left-out ids are
\* disjoint and together equal W.  The set missing = W \ E is computed only by
\* generate_soap_notes, for its transcription map.
C5_MergeExact ==
    /\ (stage = "merge_clean" /\ pc = "done") =>
         LET W == WorkIds
             E == DOMAIN soap_map
             leftOut == W \ FinalIds
         IN  /\ FinalIds = W \cap E
             /\ Len(final) = Cardinality(FinalIds)
             /\ \A i \in 1..Len(final) :
                    /\ final[i].soap = soap_map[final[i].row_id]
                    /\ inFile[final[i].soap].custom_id = final[i].row_id
             /\ leftOut = W \ E
             /\ FinalIds \cap leftOut = {}
             /\ FinalIds \cup leftOut = W
             /\ missing = {}
             /\ reported = Len(final)
    /\ (stage = "soap_notes" /\ pc # "load_tx" /\ failure # "ValueError") =>
         missing = WorkIds \ DOMAIN tx_map

C5_Witness ==
    /\ stage = "merge_clean" /\ pc = "done"
    /\ WorkIds \cap DOMAIN soap_map # {}
    /\ WorkIds \ DOMAIN soap_map # {}
    /\ ForeignId \in DOMAIN soap_map

\* C6: whenever generate_transcriptions_batch writes synthetic_patients.jsonl,
\* every row carries the transcription extracted from the response line whose
\* custom_id is the row's row_id; no row has a null transcription.
C6_NoNullTranscription ==
    (stage = "tx_batch" /\ finalCreated) =>
        \A i \in 1..Len(final) :
            /\ final[i].transcription # Null
            /\ outFile[final[i].transcription].custom_id = final[i].row_id

\* C7 (as claimed): in every stage, a work item whose id has no extracted
\* payload makes the stage abort: no stage finishes with an id missing.
C7_AbortIfAnyMissing ==
    pc = "done" =>
        WorkIds \subseteq
            (IF stage = "tx_batch" THEN DOMAIN tx_map
             ELSE ExtractedIn(MergedFile))

\* C7 (amended): only two stages abort on missing payloads.
\* generate_soap_notes exits (SystemExit) when any work item's id has no
\* extracted transcription, before it creates a job or its final dataset;
\* generate_transcriptions_batch raises unless the number of extracted ids is
\* TARGET_ROWS.
C7_StrictStages ==
    /\ (stage = "soap_notes" /\ ~(WorkIds \subseteq DOMAIN tx_map)) =>
         /\ pc \in {"load_tx", "aborted"}
         /\ jobs = 0 /\ ~finalCreated
         /\ (pc = "aborted" /\ idx = 0) => failure = "SystemExit"
    /\ (stage = "tx_batch" /\ (finalCreated \/ pc = "done")) =>
         Cardinality(DOMAIN tx_map) = TARGET_ROWS

C7_Witness ==
    /\ stage = "soap_notes" /\ pc = "aborted" /\ failure = "SystemExit"
    /\ missing # {} /\ missing # WorkIds
    /\ jobs = 0 /\ ~finalCreated

\* C8 (as claimed): a success line with unparseable content is a per-record
\* failure: the stage does not abort on it.
C8_BadContentNonFatal ==
    (idx > 0 /\ idx <= Len(ReadFile) /\ BadRec(ReadFile[idx])) => pc # "aborted"

\* C8 (amended): a success line with unparseable content is fatal in every
\* stage: the stage raises at that line (ValueError in the transcription load
\* of generate_soap_notes, JSONDecodeError elsewhere), reads no later line and
\* writes no merged record for that line or a later one;
\* generate_transcriptions_batch and merge_soap_clean then write no final
\* dataset at all.
C8_BadContentFatal ==
    \A k \in 1..idx :
        (k <= Len(ReadFile) /\ BadRec(ReadFile[k])) =>
            /\ k = idx
            /\ pc = "aborted"
            /\ failure = (IF stage = "soap_notes" /\ ~downloaded
                          THEN "ValueError" ELSE "JSONDecodeError")
            /\ \A i \in 1..Len(final) : final[i].soap < k
            /\ stage \in {"tx_batch", "merge_clean"} => ~finalCreated

C8_Witness ==
    /\ pc = "aborted" /\ idx = 1 /\ Len(ReadFile) = 2
    /\ BadRec(ReadFile[1]) /\ GoodRec(ReadFile[2])
    /\ ReadFile[2].custom_id \in WorkIds
    /\ ReadFile[2].custom_id # ReadFile[1].custom_id

\* The scenario of C9: every line of the merged file is a success line of a
\* work item, no id twice; o ids have no line, u lines are unparseable.
Scenario ==
    /\ stage = "merge_clean" \/ (stage = "soap_notes" /\ downloaded)
    /\ \A i \in 1..Len(MergedFile) :
          /\ MergedFile[i].status_code = 200
          /\ MergedFile[i].custom_id \in WorkIds
          /\ \A j \in 1..Len(MergedFile) :
                MergedFile[i].custom_id = MergedFile[j].custom_id => i = j
Omitted == TARGET_ROWS - Len(MergedFile)
Unparseable == Cardinality({i \in 1..Len(MergedFile) : BadRec(MergedFile[i])})

\* C9 (as claimed): with o omitted and u unparseable, the stage ends with
\* N - o - u merged records and a missing set of o + u ids.
C9_EndToEnd ==
    (Scenario /\ pc \in {"done", "aborted"}) =>
        /\ Len(final) = TARGET_ROWS - Omitted - Unparseable
        /\ Cardinality(missing) = Omitted + Unparseable

\* C9 (amended): with o omitted and no unparseable content, the final dataset
\* of merge_soap_clean and of generate_soap_notes has exactly N - o merged
\* records, merge_soap_clean reports that count, and no missing id is
\* reported; with u >= 1 the stage does not finish: it aborts at the first
\* unparseable line (merge_soap_clean without a final dataset,
\* generate_soap_notes with the records merged before that line).
C9_EndToEndNoBad ==
    Scenario =>
        /\ pc = "done" =>
             /\ Unparseable = 0
             /\ Len(final) = TARGET_ROWS - Omitted
             /\ FinalIds = ExtractedIn(MergedFile)
             /\ stage = "merge_clean" => reported = TARGET_ROWS - Omitted
             /\ missing = {}
        /\ pc = "aborted" =>
             /\ Unparseable >= 1
             /\ BadRec(MergedFile[idx])
             /\ \A k \in 1..(idx - 1) : ~BadRec(MergedFile[k])
             /\ stage = "merge_clean" => ~finalCreated
             /\ stage = "soap_notes" => Len(final) = idx - 1
        /\ (Unparseable >= 1 /\ idx = Len(MergedFile)) => pc # "done"

C9_Witness ==
    /\ Scenario /\ stage = "merge_clean" /\ pc = "done"
    /\ Omitted = 1 /\ Len(final) = TARGET_ROWS - 1 /\ reported = Len(final)

\* C10 (as claimed): build_rows(N) returns exactly N rows with pairwise
\* distinct row ids.
C10_BuildsN ==
    bPc = "returned" =>
        /\ Len(bRows) = bN
        /\ \A i, j \in 1..Len(bRows) : bRows[i].row_id = bRows[j].row_id => i = j

\* C10 (amended): build_rows(N) returns exactly TARGET_ROWS rows whatever N
\* is (N rows only when N = TARGET_ROWS, as in its one call), with pairwise
\* distinct row ids row0000, row0001, ...
C10_BuildsTargetRows ==
    /\ \A i \in 1..Len(bRows) : bRows[i].row_id = DfIds[i]
    /\ \A i, j \in 1..Len(bRows) : bRows[i].row_id = bRows[j].row_id => i = j
    /\ bPc = "returned" => Len(bRows) = TARGET_ROWS

C10_Witness ==
    bPc = "returned" /\ bN # Len(bRows) /\ Len(bRows) = TARGET_ROWS /\ bN > 0

HasDelim(s) == \E i \in 1..Len(s) : s[i] = "_"

IsSubstring(s, t) ==
    \E i \in 1..(Len(t) + 1) : \E j \in (i - 1)..Len(t) : s = SubSeq(t, i, j)

\* t holds a "[" and, somewhere after it, a "]".
HasBracketed(t) ==
    \E i \in 1..Len(t) : \E j \in (i + 1)..Len(t) : t[i] = "[" /\ t[j] = "]"

\* The attempt that was just made got an answer text.
Answered ==
    /\ rFn = "fetch_complaints" /\ rRaw # APIError
    /\ rPc \in {"attempted", "returned", "raised", "saved"}

\* C12: clean_json strips a fence only at the start and at the end of the
\* trimmed text and removes nothing from the middle: what it returns is one
\* contiguous part of the trimmed text (a fence inside it is kept), a fenced
\* array  ```j\n[1,1]\n```  yields [1,1], and a text with no bracketed array
\* yields the empty string, on which the decoding fails: the attempt fails
\* and no value is returned for it.
C12_FenceOnlyAtEnds ==
    Answered =>
        LET t == Strip(rRaw) IN
        /\ IsSubstring(rCleaned, t)
        /\ \A A \in SeqsUpTo(Chunks, 1) :
             (t = Fence \o <<"j", "\n">> \o Flatten(A) \o <<"\n">> \o Fence
                /\ StartsWith(Flatten(A), <<"[">>)
                /\ EndsWith(Flatten(A), <<"]">>))
             => rCleaned = Flatten(A)
        /\ (rCleaned = <<>>) <=> ~HasBracketed(t)
        /\ ~HasBracketed(t) =>
             /\ ~rHist[Len(rHist)]
             /\ rPc \in {"attempted", "raised"}

C12_Witness ==
    /\ Answered
    /\ rRaw = <<"\n">> \o Fence \o <<"j", "\n">> \o Arr \o <<"\n">> \o Fence
    /\ rCleaned = Arr
    /\ rPc = "returned"
    /\ Len(rHist) = 2

C12_WitnessMidFence ==
    /\ Answered
    /\ StartsWith(rRaw, Fence) /\ EndsWith(rRaw, Fence)
    /\ rCleaned = <<"[">> \o Fence \o <<"]">>

\* The position of the "]" that closes the bracket opened before position i,
\* `depth` brackets being open; 0 when it is never closed.
RECURSIVE ClosingAt(_, _, _)
ClosingAt(s, i, depth) ==
    IF i > Len(s) THEN 0
    ELSE IF s[i] = "[" THEN ClosingAt(s, i + 1, depth + 1)
    ELSE IF s[i] = "]"
         THEN IF depth = 1 THEN i ELSE ClosingAt(s, i + 1, depth - 1)
         ELSE ClosingAt(s, i + 1, depth)

\* The first balanced [...] of s; <<>> when there is none.
FirstBalanced(s) ==
    LET O == {i \in 1..Len(s) : s[i] = "["}
    IN  IF O = {} THEN <<>>
        ELSE LET i == CHOOSE x \in O : \A y \in O : x <= y
                 j == ClosingAt(s, i + 1, 1)
             IN  IF j = 0 THEN <<>> ELSE SubSeq(s, i, j)

\* C13: when the text holds a balanced bracketed array (and possibly
\* another one after it), clean_json returns only the first balanced [...]
\* structure, not the text up to the last closing bracket.
C13_FirstBalancedOnly ==
    (Answered /\ FirstBalanced(Strip(rRaw)) # <<>>) =>
        rCleaned = FirstBalanced(Strip(rRaw))

\* C14: for a content made of optional leading whitespace or prose, then the
\* object {"transcription": ...}, then optional trailing prose, the
\* extraction succeeds and yields that object's transcription.
C14_ExtractsDespiteNoise ==
    (gtPc \in {"stored", "ValueError"} /\ gtIn.kind = "object") =>
        /\ gtPc = "stored"
        /\ gtMatch.group = gtIn.text

NoDuplicate(s) == \A i, j \in 1..Len(s) : s[i] = s[j] => i = j

\* C15: a submission whose request file is empty, or holds the same
\* custom_id twice, is rejected before the upload: no batch job is ever
\* created for it.
C15_RejectsEmptyOrDuplicate ==
    (stage \in BatchStages /\ jobs > 0) =>
        (reqFile # <<>> /\ NoDuplicate(reqFile))

\* Every sub-request of note c has a success line with parseable content in
\* the downloaded augmentation output.
AllSucceeded(c) ==
    \A l \in 1..Len(SOAP_LABELS), f \in 1..Len(FORMAT_SLUGS) :
        \E i \in 1..Len(outFile) :
            /\ outFile[i].custom_id = EncodeId(c, SOAP_LABELS[l], FORMAT_SLUGS[f])
            /\ GoodRec(outFile[i])

\* C16: when the augmentation stage has ended, for each original note whose
\* sub-requests all succeeded, soap_augmented.jsonl holds exactly 5 x K x 4
\* lines with that note's row_id, no two of them alike.
C16_LinesPerNote ==
    (stage = "soap_sections" /\ downloaded /\ pc \in {"done", "aborted"}) =>
        \A c \in Range(FirstSeen(inFile)) :
            AllSucceeded(c) =>
                LET L == {i \in 1..Len(final) : final[i].row_id = c}
                IN  /\ finalCreated
                    /\ Cardinality(L) = Len(FORMAT_SLUGS) * K * Len(SOAP_LABELS)
                    /\ \A i, j \in L : final[i] = final[j] => i = j

\* The file whose lines a map of the stage was filled from.
MapFile == IF stage = "tx_batch" THEN outFile ELSE inFile

\* No entry of a map and no line of the final dataset comes from a line
\* whose status is a failure.
NoneFromFailure ==
    /\ \A c \in DOMAIN tx_map : MapFile[tx_map[c]].status_code = 200
    /\ \A c \in DOMAIN soap_map : inFile[soap_map[c]].status_code = 200
    /\ \A c \in DOMAIN sections : inFile[sections[c]].status_code = 200
    /\ \A i \in 1..Len(final) :
          /\ final[i].soap # Null =>
                MergedFile[final[i].soap].status_code = 200
          /\ final[i].transcription # Null =>
                MapFile[final[i].transcription].status_code = 200

\* C17: a response line whose status_code is not 200 is skipped in every
\* stage: the step that reads it extracts nothing (no map gets an entry, the
\* final dataset gets no line), raises nothing, and leaves the loop running
\* for the lines after it.
C17_FailureSkipped ==
    /\ []NoneFromFailure
    /\ [][(idx' = idx + 1 /\ idx < Len(ReadFile)
             /\ ReadFile[idx + 1].status_code # 200)
          => /\ tx_map' = tx_map /\ soap_map' = soap_map
             /\ sections' = sections /\ final' = final
             /\ pc' = pc /\ failure' = failure]_vars

C17_Witness ==
    /\ pc = "done" /\ stage \in {"merge_clean", "soap_notes", "tx_batch"}
    /\ Len(ReadFile) = 2 /\ idx = 2
    /\ ReadFile[1].status_code # 200
    /\ GoodRec(ReadFile[2]) /\ ReadFile[2].custom_id \in WorkIds
    /\ \E i \in 1..Len(final) : final[i].row_id = ReadFile[2].custom_id
    /\ \A i \in 1..Len(final) : final[i].row_id # ReadFile[1].custom_id

\* The position of a step in the order  load -> request file written ->
\* upload and job creation -> polls -> download -> parse and merge -> end.
StepRank(p) ==
    CASE p \in {"load_tx", "load_sections", "load_resp"} -> 0
      [] p = "write_input" -> 1
      [] p = "launch" -> 2
      [] p = "poll" -> 3
      [] p = "download" -> 4
      [] p \in {"parse", "open_master", "merge", "flatten"} -> 5
      [] p = "done" -> 6
      [] p = "aborted" -> 7
      [] OTHER -> 0

OneJobInOrder ==
    /\ jobs <= 1
    /\ (jobs = 0) <=> (remote = "none")
    /\ (stage \in BatchStages /\ (pc = "launch" \/ jobs > 0)) =>
          reqFile = RequestIds
    /\ polls > 0 => jobs = 1
    /\ (pc = "download" \/ downloaded) => (polls > 0 /\ jobs = 1)
    /\ (pc \in {"parse", "open_master", "merge", "flatten"}
          \/ (stage \in BatchStages /\ (finalCreated \/ pc = "done")))
       => downloaded

\* C18: in one run of a batch stage at most one batch job is created, and
\* the steps come in the order request file fully written -> upload and job
\* creation -> polls -> download -> parse and merge: a step never follows a
\* later one, the request file is not rewritten once the job exists, every
\* poll and the download happen while exactly that one job exists, polls are
\* made one at a time and none after the download.
C18_OneJobFixedOrder ==
    /\ []OneJobInOrder
    /\ [][/\ StepRank(pc') >= StepRank(pc)
          /\ jobs' # jobs =>
               (jobs = 0 /\ jobs' = 1 /\ polls = 0 /\ pc = "launch"
                  /\ reqFile = RequestIds)
          /\ reqFile' # reqFile => (jobs = 0 /\ pc = "write_input")
          /\ polls' # polls =>
               (polls' = polls + 1 /\ jobs = 1 /\ pc = "poll" /\ ~downloaded)
          /\ downloaded' # downloaded =>
               (jobs = 1 /\ pc = "download" /\ polls' = polls)]_vars

C18_Witness ==
    /\ stage \in BatchStages /\ pc = "done"
    /\ jobs = 1 /\ polls >= 2 /\ downloaded /\ Len(final) >= 1

\* The rows accepted from a group whose results are taken in the order the
\* calls were made.
AcceptedInCallOrder ==
    AcceptAll([rows |-> mBefore, seen |-> Range(mBefore)],
              [i \in 1..Len(mCalls) |-> mCalls[i].key]).rows

\* C19: in main at most BATCH_SIZE generate_one calls are in flight at any
\* moment; a new group of calls is started only when no call of the previous
\* group is still running (all of them have returned); and the rows accepted
\* from a group are those obtained by taking its results in the order the
\* calls were made, whatever the order in which they completed.
C19_BoundedGroups ==
    /\ [](Cardinality(Running(mCalls)) <= BATCH_SIZE)
    /\ []((mPc = "loop" /\ mGroups > 0) => mRows = AcceptedInCallOrder)
    /\ [][mGroups' # mGroups =>
            /\ Running(mCalls) = {}
            /\ \A i \in 1..Len(mCalls) : mCalls[i].st = "done"
            /\ Len(mCalls') <= BATCH_SIZE]_vars

C19_Witness ==
    /\ mPc = "loop" /\ mGroups = 2 /\ mBefore # <<>>
    /\ Len(mCalls) = 2 /\ mOrder = <<2, 1>>
    /\ mCalls[1].key # mCalls[2].key
    /\ mCalls[2].key \in Range(mBefore) /\ mCalls[1].key \notin Range(mBefore)
    /\ mRows = Append(mBefore, mCalls[1].key)

\* C20: a retry-wrapped call makes at most RETRY_ATTEMPTS (6) attempts: no
\* attempt follows a successful one, whose result is what is returned; when
\* the 6th attempt fails too, the failure is raised to the caller and no
\* further attempt is made.  A batch stage involves no wrapper: after a
\* poll that returned failed or expired the stage has aborted, with no poll
\* after that one and no second job.
C20_BoundedRetry ==
    /\ Len(rHist) <= RETRY_ATTEMPTS
    /\ \A i \in 1..(Len(rHist) - 1) : ~rHist[i]
    /\ rPc \in {"returned", "saved"} => (rHist # <<>> /\ rHist[Len(rHist)])
    /\ rPc = "call" => Len(rHist) < RETRY_ATTEMPTS
    /\ rPc = "raised" =>
         (Len(rHist) = RETRY_ATTEMPTS /\ \A i \in 1..Len(rHist) : ~rHist[i])
    /\ (Len(rHist) = RETRY_ATTEMPTS /\ ~rHist[RETRY_ATTEMPTS]) =>
         rPc \in {"attempted", "raised"}
    /\ stage \in Stages => (rHist = <<>> /\ rPc = "idle")
    /\ (stage \in BatchStages /\ polls > 0
          /\ batch_status \in {"failed", "expired"})
       => /\ pc = "aborted" /\ failure = JobFailure
          /\ jobs = 1
          /\ polls = FirstTerminal(observed)
          /\ observed[polls] = batch_status

C20_Witness ==
    /\ rFn = "fetch_complaints" /\ rPc = "raised"
    /\ Len(rHist) = RETRY_ATTEMPTS
    /\ rRaw # APIError /\ rCleaned # <<>>

C20_WitnessFirstSuccess ==
    /\ rFn = "make_transcript" /\ rPc = "returned"
    /\ rHist = <<FALSE, FALSE, TRUE>>

C20_WitnessPollFailed ==
    /\ stage \in BatchStages /\ pc = "aborted" /\ batch_status = "expired"
    /\ polls = 2 /\ jobs = 1

\* C21: the final dataset of a stage holds at most one merged record per
\* correlation id, for any sequence of downloaded response lines, one in
\* which the same custom_id appears on more than one line included.
C21_OneRecordPerId ==
    \A i, j \in 1..Len(final) : final[i].row_id = final[j].row_id => i = j

\* The string a JSON decoder yields for the text written between the quotes
\* of a JSON string: an escaped quote, newline or backslash stands for the
\* character itself.
RECURSIVE JsonUnescape(_)
JsonUnescape(t) ==
    IF t = <<>> THEN <<>>
    ELSE IF t[1] = BACKSLASH /\ Len(t) >= 2
         THEN <<(CASE t[2] = "n" -> "\n" [] OTHER -> t[2])>>
              \o JsonUnescape(SubSeq(t, 3, Len(t)))
         ELSE <<t[1]>> \o JsonUnescape(Tail(t))

\* C22: for a content that is exactly a valid one-key JSON object
\* {"transcription": s}, the regex extractor yields the string s that JSON
\* decoding of the content yields, escaped quotes, backslashes and newlines
\* included.
C22_SameAsJsonDecoding ==
    (gtPc \in {"stored", "ValueError"} /\ gtIn.kind = "object"
        /\ gtIn.lead = <<>> /\ gtIn.trail = <<>>)
    => /\ gtPc = "stored"
       /\ gtMatch.group = JsonUnescape(gtIn.text)

\* C23: in main, after every loop iteration (indeed always) len(rows) <=
\* TARGET_ROWS, the records of rows are pairwise distinct on the full key,
\* and seen is exactly the set of keys of the records of rows; when the loop
\* has exited, rows holds exactly TARGET_ROWS records (and these are what
\* the final file holds).
C23_RowsInvariant ==
    /\ Len(mRows) <= TX_TARGET_ROWS
    /\ \A i, j \in 1..Len(mRows) : mRows[i] = mRows[j] => i = j
    /\ mSeen = Range(mRows)
    /\ mPc = "written" =>
         (Len(mRows) = TX_TARGET_ROWS /\ mMaster = mRows)

C23_Witness ==
    /\ mPc = "written" /\ mGroups = 3
    /\ Len(mMaster) = TX_TARGET_ROWS
    /\ Len(mCalls) = 1 /\ Len(mBefore) = TX_TARGET_ROWS - 1
    /\ mCalls[1].key \notin Range(mBefore)

\* C24: the k-th checkpoint file holds exactly the rows at (0-based)
\* positions (k-1)*CHECKPOINT_ROWS .. k*CHECKPOINT_ROWS - 1 of rows; no row
\* is in two checkpoint files, and every row among the first
\* k*CHECKPOINT_ROWS rows is in one of the first k checkpoint files.
C24_CheckpointSlices ==
    \A k \in 1..Len(mCheckpoints) :
        /\ mCheckpoints[k] =
             SubSeq(mRows, (k - 1) * CHECKPOINT_ROWS + 1, k * CHECKPOINT_ROWS)
        /\ \A h \in 1..Len(mCheckpoints) :
             h # k => Range(mCheckpoints[h]) \cap Range(mCheckpoints[k]) = {}
        /\ \A i \in 1..(k * CHECKPOINT_ROWS) :
             \E h \in 1..k : mRows[i] \in Range(mCheckpoints[h])

\* C25: a stage that aborts while parsing or merging response records
\* (unparseable content, or a custom_id with no matching request) leaves its
\* final dataset file either absent or complete: every successful response
\* line has its record in the file.
C25_AllOrNothing ==
    (pc = "aborted" /\ failure \in {"JSONDecodeError", "KeyError", "ValueError"})
    => \/ ~finalCreated
       \/ \A i \in 1..Len(MergedFile) :
            Succeeded(MergedFile[i]) =>
                \E j \in 1..Len(final) :
                    final[j].row_id = MergedFile[i].custom_id

====
